---- MODULE Spec2Model ----
(***************************************************************************)
(* A model of src/src/main.rs: a recursive-descent JSON parser over one    *)
(* forward-only peekable cursor.  Every function of the source is a frame  *)
(* kind on an explicit call stack; every action is one step of the         *)
(* function on top of the stack (a call, a loop iteration, a return).      *)
(*                                                                         *)
(* Characters are strings: a printable ASCII character is the one-character*)
(* string, "\n" "\r" "\t" are themselves, and any other character is named *)
(* by its code point ("U+0008").                                           *)
(*                                                                         *)
(* A Value::Number is kept as an exact decimal mant * 10^exp (mant not     *)
(* divisible by 10): the rounding of f64 is not modelled.                  *)
(***************************************************************************)
EXTENDS Integers, Sequences, FiniteSets, TLC

VARIABLES
    status,   \* "idle" before parse is called, "running", "done", "aborted" (a panic)
    input,    \* the characters of the String given to parse
    pos,      \* the cursor: index of the character iter.peek() would give
    stack,    \* the call stack, innermost frame last
    ret,      \* the value the frame that just returned handed to its caller
    result    \* what parse returned

vars == <<status, input, pos, stack, ret, result>>

----------------------------------------------------------------------------
(* Option and Value *)

None == [k |-> "None"]
\* Some of a Value
Some(v) == [k |-> "Some", val |-> v]
\* Some of what the parts of a production return
SomeString(s) == [k |-> "Some", string |-> s]
SomeU32(n) == [k |-> "Some", u32 |-> n]
SomeI32(n) == [k |-> "Some", i32 |-> n]
SomeF64(x) == [k |-> "Some", f64 |-> x]
SomeMember(s, v) == [k |-> "Some", member |-> [key |-> s, value |-> v]]
SomeDigit(d) == [k |-> "Some", digit |-> d]
Unit == [k |-> "Unit"]
NoRet == [k |-> "-"]

True == [t |-> "True"]
False == [t |-> "False"]
Null == [t |-> "Null"]
String(s) == [t |-> "String", str |-> s]
Array(v) == [t |-> "Array", vec |-> v]
Object(m) == [t |-> "Object", map |-> m]

EmptyMap == [key \in {} |-> Null]

\* insert as a map that keeps the entry it has would do it
insert_keeps_first(m, key, val) ==
    [x \in DOMAIN m \cup {key} |-> IF x \in DOMAIN m THEN m[x] ELSE val]

\* HashMap::insert: the entry of key `key` is overwritten
insert(m, key, val) ==
    [x \in DOMAIN m \cup {key} |-> IF x = key THEN val ELSE m[x]]

EOF == "EOF"

----------------------------------------------------------------------------
(* Character classes *)

AsciiDigits == {"0", "1", "2", "3", "4", "5", "6", "7", "8", "9"}

\* characters of the general categories Nd, Nl, No that are no ASCII digit:
\* SUPERSCRIPT TWO (No) and ARABIC-INDIC DIGIT THREE (Nd)
OtherNumeric == {"U+00B2", "U+0663"}

\* char::is_numeric
is_numeric(c) == c \in AsciiDigits \cup OtherNumeric

\* char::is_whitespace: the White_Space property, here space, the ASCII
\* controls and NO-BREAK SPACE
is_whitespace(c) == c \in {" ", "\n", "\t", "\r", "U+00A0"}

\* char::to_digit(10): None for every character that is no ASCII digit
to_digit(c) ==
    IF c \in AsciiDigits
    THEN SomeDigit(CASE c = "0" -> 0 [] c = "1" -> 1 [] c = "2" -> 2 [] c = "3" -> 3
                     [] c = "4" -> 4 [] c = "5" -> 5 [] c = "6" -> 6 [] c = "7" -> 7
                     [] c = "8" -> 8 [] c = "9" -> 9)
    ELSE None

----------------------------------------------------------------------------
(* Machine integers.  A u32 is two 16-bit limbs, hi * 2^16 + lo.           *)

Limb == 65536

U32Zero == [hi |-> 0, lo |-> 0]

\* 10 * num + d before it is cut to 32 bits: the low limb and the rest
MulAdd(num, d) ==
    LET l == 10 * num.lo + d
    IN  [hi |-> 10 * num.hi + (l \div Limb), lo |-> l % Limb]

\* whether 10 * num + d leaves u32
MulAddOverflows(num, d) == MulAdd(num, d).hi >= Limb

\* 10 * num + d as wrapping arithmetic gives it
MulAddWrapped(num, d) == [MulAdd(num, d) EXCEPT !.hi = @ % Limb]

\* num as i32: the same 32 bits read as two's complement
AsI32(num) ==
    IF 2 * num.hi < Limb THEN num.hi * Limb + num.lo
    ELSE (num.hi - Limb) * Limb + num.lo

I32Min == (0 - (Limb \div 2)) * Limb

\* sign * (num as i32) leaves i32 only for -1 * i32::MIN
SignMulOverflows(sign, num) == sign = -1 /\ AsI32(num) = I32Min

\* sign * (num as i32); -1 * i32::MIN wraps to i32::MIN
SignMul(sign, num) ==
    IF SignMulOverflows(sign, num) THEN I32Min ELSE sign * AsI32(num)

----------------------------------------------------------------------------
(* Numbers *)

RECURSIVE Pow10(_)
Pow10(n) == IF n = 0 THEN 1 ELSE 10 * Pow10(n - 1)

RECURSIVE Norm(_, _)
Norm(m, e) ==
    IF m = 0 THEN [t |-> "Number", mant |-> 0, exp |-> 0]
    ELSE IF m % 10 = 0 THEN Norm(m \div 10, e + 1)
    ELSE [t |-> "Number", mant |-> m, exp |-> e]

\* a fraction 0.d1...dk is num / 10^scale
FracZero == [num |-> 0, scale |-> 0]

\* ((int as f64) + fraction) * 10_f64.powi(exponent)
NumberValue(int, fraction, exponent) ==
    Norm(int * Pow10(fraction.scale) + fraction.num, exponent - fraction.scale)

\* s.parse::<f64>() of "0." followed by the characters the digit loop took:
\* Some for ASCII digits only
RECURSIVE FracNum(_)
FracNum(ds) ==
    IF ds = <<>> THEN 0
    ELSE 10 * FracNum(SubSeq(ds, 1, Len(ds) - 1)) + to_digit(ds[Len(ds)]).digit

parse_f64(s) ==
    LET ds == SubSeq(s, 3, Len(s))
    IN  IF \A i \in 1..Len(ds) : ds[i] \in AsciiDigits
        THEN SomeF64([num |-> FracNum(ds), scale |-> Len(ds)])
        ELSE None

----------------------------------------------------------------------------
(* The cursor and the call stack *)

\* iter.peek(): the next character, EOF at the end of the input
peek == IF pos <= Len(input) THEN input[pos] ELSE EOF

\* the character after the next
peek2 == IF pos + 1 <= Len(input) THEN input[pos + 1] ELSE EOF

Top == stack[Len(stack)]
Pop == SubSeq(stack, 1, Len(stack) - 1)
Frame(f) == [fn |-> f, pc |-> "start"]

\* the function on top of the stack is f, at the place pc
At(f, p) == status = "running" /\ stack # <<>> /\ Top.fn = f /\ Top.pc = p

\* the caller goes on as `caller` once `callee` has returned
Call(caller, callee) ==
    /\ stack' = Append(Append(Pop, caller), Frame(callee))
    /\ ret' = NoRet

\* the top frame goes on as `frame`
Step(frame) ==
    /\ stack' = Append(Pop, frame)
    /\ ret' = NoRet

Return(v) ==
    /\ stack' = Pop
    /\ ret' = v

\* a panic: an unwrap of None, a failed assert!, an arithmetic overflow of a
\* build with overflow checks
Abort ==
    /\ status' = "aborted"
    /\ UNCHANGED <<input, stack, ret, result>>

Advance(n) == pos' = pos + n
Stay == pos' = pos
Same == UNCHANGED <<status, input, result>>

----------------------------------------------------------------------------
(* parse, parse_element, parse_value *)

(* The texts parse is called with.  Each family is a table of texts with    *)
(* what is known of the text from the way it was written down: its parts,  *)
(* the value it denotes.                                                   *)

RECURSIVE Flat(_)
Flat(ss) == IF ss = <<>> THEN <<>> ELSE Head(ss) \o Flat(Tail(ss))

SeqsUpTo(S, n) == UNION {[1..k -> S] : k \in 0..n}

Quoted(s) == <<"\"">> \o s \o <<"\"">>

MaxDigits == 2
MaxLen == 3
MaxStrItems == 2
MaxMembers == 3

\* the value of a run of ASCII digits, most significant first
DigitValue ==
    "0" :> 0 @@ "1" :> 1 @@ "2" :> 2 @@ "3" :> 3 @@ "4" :> 4 @@
    "5" :> 5 @@ "6" :> 6 @@ "7" :> 7 @@ "8" :> 8 @@ "9" :> 9

RECURSIVE Decimal(_)
Decimal(ds) ==
    IF ds = <<>> THEN 0
    ELSE 10 * Decimal(SubSeq(ds, 1, Len(ds) - 1)) + DigitValue[ds[Len(ds)]]

(* Numbers: -?[0-9]+(\.[0-9]+)?([eE][+-]?[0-9]+)? *)

IntRuns == SeqsUpTo({"0", "1"}, MaxDigits) \ {<<>>}
FracRuns == {<<"5">>, <<"0", "5">>, <<"2", "5">>}
ExpRuns == {<<"2">>, <<"1", "0">>}

NoExp == [mark |-> <<>>, sign |-> <<>>, digits |-> <<>>]

NumParts ==
    [neg : BOOLEAN, int : IntRuns, frac : {<<>>} \cup FracRuns,
     exp : {NoExp} \cup [mark : {<<"e">>, <<"E">>},
                         sign : {<<>>, <<"+">>, <<"-">>},
                         digits : ExpRuns]]

NumText(p) ==
    (IF p.neg THEN <<"-">> ELSE <<>>) \o p.int
    \o (IF p.frac = <<>> THEN <<>> ELSE <<".">> \o p.frac)
    \o p.exp.mark \o p.exp.sign \o p.exp.digits

\* the exponent the text states
StdExponent(p) ==
    (IF p.exp.sign = <<"-">> THEN -1 ELSE 1) * Decimal(p.exp.digits)

\* the standard reading of the text: sign * int.frac * 10^exp
StdValue(p) ==
    Norm((IF p.neg THEN -1 ELSE 1)
            * (Decimal(p.int) * Pow10(Len(p.frac)) + Decimal(p.frac)),
         StdExponent(p) - Len(p.frac))

NumCases == {[text |-> NumText(p), parts |-> p] : p \in NumParts}

(* Strings: a quote, items, a quote.  An item is a character written as    *)
(* itself or a backslash and one more character.                           *)

PlainItems == {[src |-> <<c>>, out |-> c] : c \in {"a", " ", "/", "U+00B2"}}

GoodEscapes ==
    {[src |-> <<"\\", "\"">>, out |-> "\""],
     [src |-> <<"\\", "\\">>, out |-> "\\"],
     [src |-> <<"\\", "/">>, out |-> "/"],
     [src |-> <<"\\", "b">>, out |-> "U+0008"],
     [src |-> <<"\\", "n">>, out |-> "\n"],
     [src |-> <<"\\", "r">>, out |-> "\r"],
     [src |-> <<"\\", "t">>, out |-> "\t"]}

\* \f: one character, whichever the parser gives
FormFeedEscape == [src |-> <<"\\", "f">>, out |-> "f-escape"]

BadOut == "no such escape"
BadEscapes ==
    {[src |-> <<"\\", "u", "0", "0", "4", "1">>, out |-> BadOut],
     [src |-> <<"\\", "x">>, out |-> BadOut],
     [src |-> <<"\\", "a">>, out |-> BadOut]}

StrItems == PlainItems \cup GoodEscapes \cup {FormFeedEscape} \cup BadEscapes

StrCases ==
    {[text |-> Quoted(Flat([i \in DOMAIN items |-> items[i].src])), items |-> items] :
        items \in SeqsUpTo(StrItems, MaxStrItems)}

(* Scalars and small values, with the value each denotes *)

ElemCases ==
    {[text |-> <<"1">>, val |-> Norm(1, 0)],
     [text |-> <<"[", "t", "r", "u", "e", "]">>, val |-> Array(<<True>>)]}

(* Objects and arrays: members or elements, a layout, and stray commas *)

Keys == {<<"a">>, <<"b">>}
Members == {m \in [key : Keys, elem : ElemCases] : m.key = <<"a">> \/ m.elem.text = <<"1">>}
MemberLists == SeqsUpTo(Members, MaxMembers)
ElemLists == SeqsUpTo(ElemCases, MaxMembers)

\* the n texts with `sep` between them
RECURSIVE Joined(_, _)
Joined(texts, sep) ==
    IF texts = <<>> THEN <<>>
    ELSE IF Len(texts) = 1 THEN texts[1]
    ELSE texts[1] \o sep \o Joined(Tail(texts), sep)

Layouts == {<<>>, <<" ">>}
Commas == {"plain", "leading", "trailing", "doubled"}

\* an opening bracket, the items with commas between, a closing bracket;
\* `ws` goes around every token; the stray comma goes where `commas` says
Bracketed(open, items, close, ws, commas) ==
    <<open>> \o ws
    \o (IF commas = "leading" THEN <<",">> \o ws ELSE <<>>)
    \o Joined(items, ws \o (IF commas = "doubled" THEN <<",", ",">> ELSE <<",">>) \o ws)
    \o ws
    \o (IF commas = "trailing" THEN <<",">> \o ws ELSE <<>>)
    \o <<close>>

MemberText(m, ws) == Quoted(m.key) \o ws \o <<":">> \o ws \o m.elem.text

\* a stray comma of the kind `commas` has a place among n items
HasPlace(commas, n) ==
    CASE commas = "leading" -> n >= 1
      [] commas = "doubled" -> n >= 2
      [] OTHER -> TRUE

ObjCases ==
    {[text |-> Bracketed("{", [i \in DOMAIN ms |-> MemberText(ms[i], ws)], "}", ws, cm),
      members |-> ms, commas |-> cm] :
        <<ms, ws, cm>> \in {x \in MemberLists \X Layouts \X Commas :
                               HasPlace(x[3], Len(x[1]))}}

ArrCases ==
    {[text |-> Bracketed("[", [i \in DOMAIN es |-> es[i].text], "]", ws, cm),
      elems |-> es, commas |-> cm] :
        <<es, ws, cm>> \in {x \in ElemLists \X Layouts \X Commas :
                               HasPlace(x[3], Len(x[1]))}}

\* the mapping the members denote: every key, with the value of its last member
LastWins(ms) ==
    [key \in {ms[i].key : i \in DOMAIN ms} |->
        LET last == CHOOSE i \in DOMAIN ms :
                        /\ ms[i].key = key
                        /\ \A j \in DOMAIN ms : ms[j].key = key => j <= i
        IN  ms[last].elem.val]

ObjValue(ms) == Object(LastWins(ms))
ArrValue(es) == Array([i \in DOMAIN es |-> es[i].val])

(* Complete texts with the value each denotes; `open` says the text ends   *)
(* in a digit run, which more characters could continue                    *)

Num(m, e) == [t |-> "Number", mant |-> m, exp |-> e]
StrA == String(<<"a">>)

GoodCases ==
    {[text |-> <<"t", "r", "u", "e">>, val |-> True, open |-> FALSE],
     [text |-> <<"f", "a", "l", "s", "e">>, val |-> False, open |-> FALSE],
     [text |-> <<"n", "u", "l", "l">>, val |-> Null, open |-> FALSE],
     [text |-> <<"7">>, val |-> Num(7, 0), open |-> TRUE],
     [text |-> <<"1", ".", "5">>, val |-> Num(15, -1), open |-> TRUE],
     [text |-> <<"5", "e", "2">>, val |-> Num(5, 2), open |-> TRUE],
     [text |-> Quoted(<<"a">>), val |-> StrA, open |-> FALSE],
     [text |-> <<"[", "]">>, val |-> Array(<<>>), open |-> FALSE],
     [text |-> <<"{", "}">>, val |-> Object(EmptyMap), open |-> FALSE],
     [text |-> <<"[", "1", ",", "\"", "a", "\"", "]">>,
      val |-> Array(<<Num(1, 0), StrA>>), open |-> FALSE],
     \* {"a":[1,{"b":true}]}
     [text |-> <<"{", "\"", "a", "\"", ":", "[", "1", ",", "{", "\"", "b", "\"",
                 ":", "t", "r", "u", "e", "}", "]", "}">>,
      val |-> Object(<<"a">> :> Array(<<Num(1, 0), Object(<<"b">> :> True)>>)),
      open |-> FALSE]}

\* what may follow the element: nothing, or text that starts with a
\* character that is no whitespace
Trailers ==
    {<<>>, <<"x">>, <<"]">>, <<"}", "1">>, <<",", "1">>, <<"1">>, <<".", "5">>,
     <<"e", "5">>, <<"U+00B2">>, <<"t", "r", "u", "e">>, <<"\"">>, <<"{">>,
     <<"\\", " ">>}

\* the trailer would be read as more of the element: it follows a digit run
\* with a character that goes on with a number
CanExtend(g, after, trailer) ==
    /\ g.open /\ after = <<>> /\ trailer # <<>>
    /\ is_numeric(trailer[1]) \/ trailer[1] \in {".", "e", "E"}

Before == {<<>>, <<" ">>, <<"\n", "\t">>}
After == {<<>>, <<" ">>, <<"\r", "U+00A0">>}

TrailCases ==
    {[text |-> x[1] \o x[2].text \o x[3] \o x[4], val |-> x[2].val,
      consumed |-> Len(x[1]) + Len(x[2].text) + Len(x[3]), trailer |-> x[4]] :
        x \in {y \in Before \X GoodCases \X After \X Trailers :
                  ~CanExtend(y[2], y[3], y[4])}}

(* Texts cut short.  A scan of the text, which knows strings and brackets  *)
(* only, says where a text stops: inside a string, inside brackets, inside *)
(* a literal, inside a number.                                             *)

RECURSIVE Scan(_, _, _, _)
Scan(text, i, mode, depth) ==
    IF i > Len(text) THEN [mode |-> mode, depth |-> depth]
    ELSE LET c == text[i]
         IN  CASE mode = "esc" -> Scan(text, i + 1, "str", depth)
               [] mode = "str" ->
                    Scan(text, i + 1,
                         IF c = "\\" THEN "esc" ELSE IF c = "\"" THEN "out" ELSE "str",
                         depth)
               [] OTHER ->
                    Scan(text, i + 1, IF c = "\"" THEN "str" ELSE "out",
                         IF c \in {"[", "{"} THEN depth + 1
                         ELSE IF c \in {"]", "}"} THEN depth - 1 ELSE depth)

LiteralWords == {<<"t", "r", "u", "e">>, <<"f", "a", "l", "s", "e">>, <<"n", "u", "l", "l">>}

EndsWith(text, s) ==
    Len(s) <= Len(text) /\ SubSeq(text, Len(text) - Len(s) + 1, Len(text)) = s

EndsInLiteral(text) ==
    \E w \in LiteralWords : \E n \in 1..(Len(w) - 1) : EndsWith(text, SubSeq(w, 1, n))

EndsInNumber(text) ==
    /\ text # <<>>
    /\ \/ text[Len(text)] \in {"-", "+", "."}
       \/ /\ text[Len(text)] \in {"e", "E"}
          /\ Len(text) >= 2 /\ text[Len(text) - 1] \in AsciiDigits

Incomplete(text) ==
    LET end == Scan(text, 1, "out", 0)
    IN  \/ \A i \in DOMAIN text : is_whitespace(text[i])
        \/ end.mode # "out"
        \/ end.depth > 0
        \/ end.mode = "out" /\ (EndsInLiteral(text) \/ EndsInNumber(text))

Prefixes(text) == {SubSeq(text, 1, n) : n \in 0..(Len(text) - 1)}

\* [-2147483648] and [4294967295]: the integers at the ends of i32 and u32
EdgeTexts ==
    {<<"[", "-", "2", "1", "4", "7", "4", "8", "3", "6", "4", "8", "]">>,
     <<"[", "4", "2", "9", "4", "9", "6", "7", "2", "9", "5", "]">>}

ValidTexts ==
    {c.text : c \in NumCases}
    \cup {c.text : c \in {d \in StrCases :
                            \A i \in DOMAIN d.items : d.items[i].out # BadOut}}
    \cup {c.text : c \in {d \in ObjCases : d.commas = "plain"}}
    \cup {c.text : c \in {d \in ArrCases : d.commas = "plain"}}
    \cup {c.text : c \in {d \in TrailCases : d.trailer = <<>>}}
    \cup EdgeTexts

\* a member with no value after the colon: {"a":} and the like
NoValueTexts ==
    {<<"{", "\"", "a", "\"", ":", "}">>,
     <<"{", " ", "\"", "a", "\"", " ", ":", " ", "}">>,
     <<"{", "\"", "a", "\"", ":", "1", ",", "\"", "b", "\"", ":", "}">>}

CutTexts ==
    {text \in UNION {Prefixes(v) : v \in ValidTexts} : Incomplete(text)}
    \cup NoValueTexts

(* Any text at all, up to a length, over the characters the parser tells   *)
(* apart; and digit runs around the ends of u32 and i32                    *)

FreeChars ==
    {"[", "]", "{", "}", ",", ":", "\"", "1", "-", ".", " ", "U+00B2"}

FreeTexts == SeqsUpTo(FreeChars, MaxLen)

LongNumbers ==
    {<<"4", "2", "9", "4", "9", "6", "7", "2", "9", "5">>,
     <<"4", "2", "9", "4", "9", "6", "7", "2", "9", "6">>,
     <<"2", "1", "4", "7", "4", "8", "3", "6", "4", "7">>,
     <<"2", "1", "4", "7", "4", "8", "3", "6", "4", "8">>,
     <<"-", "2", "1", "4", "7", "4", "8", "3", "6", "4", "8">>,
     <<"9", "9", "9", "9", "9", "9", "9", "9", "9", "9", "9">>,
     <<"1", "e", "2", "1", "4", "7", "4", "8", "3", "6", "4", "8">>}

Inputs ==
    {c.text : c \in NumCases} \cup {c.text : c \in StrCases}
    \cup {c.text : c \in ObjCases} \cup {c.text : c \in ArrCases}
    \cup {c.text : c \in TrailCases} \cup CutTexts
    \cup FreeTexts \cup LongNumbers \cup ValidTexts

\* fn parse: the cursor is put on the first character, parse_element called
parse ==
    /\ status = "idle"
    /\ \E text \in Inputs : input' = text
    /\ status' = "running"
    /\ pos' = 1
    /\ stack' = <<Frame("parse_element")>>
    /\ ret' = NoRet
    /\ UNCHANGED result

\* parse as it would be if what is left of the input were an error
parse_return_strict ==
    /\ status = "running"
    /\ stack = <<>>
    /\ status' = "done"
    /\ result' = IF pos <= Len(input) THEN None ELSE ret
    /\ UNCHANGED <<input, pos, stack, ret>>

\* fn parse: what parse_element returned is returned, whatever is left
parse_return ==
    /\ status = "running"
    /\ stack = <<>>
    /\ status' = "done"
    /\ result' = ret
    /\ UNCHANGED <<input, pos, stack, ret>>

parse_element_skip1 ==
    /\ At("parse_element", "start")
    /\ Call([Top EXCEPT !.pc = "value"], "skip_whitespace")
    /\ Stay /\ Same

parse_element_value ==
    /\ At("parse_element", "value")
    /\ Call([Top EXCEPT !.pc = "skip2"], "parse_value")
    /\ Stay /\ Same

\* let ret = parse_value(iter); skip_whitespace(iter);
parse_element_skip2 ==
    /\ At("parse_element", "skip2")
    /\ Call([fn |-> "parse_element", pc |-> "ret", r |-> ret], "skip_whitespace")
    /\ Stay /\ Same

parse_element_ret ==
    /\ At("parse_element", "ret")
    /\ Return(Top.r)
    /\ Stay /\ Same

\* the production the peeked character selects
Production(c) ==
    CASE c = "\"" -> "parse_string"
      [] is_numeric(c) \/ c = "-" -> "parse_number"
      [] c = "{" -> "parse_object"
      [] c = "[" -> "parse_array"
      [] c = "t" -> "parse_true"
      [] c = "f" -> "parse_false"
      [] c = "n" -> "parse_null"
      [] OTHER -> "none"

parse_value_dispatch ==
    /\ At("parse_value", "start")
    /\ IF Production(peek) = "none"
       THEN Return(None)
       ELSE Call([Top EXCEPT !.pc = Production(peek)], Production(peek))
    /\ Stay /\ Same

\* Some('"') => Some(Value::String(parse_string(iter)?))
parse_value_string ==
    /\ At("parse_value", "parse_string")
    /\ Return(IF ret = None THEN None ELSE Some(String(ret.string)))
    /\ Stay /\ Same

\* every other arm returns what the production returned
parse_value_ret ==
    /\ status = "running" /\ stack # <<>>
    /\ Top.fn = "parse_value"
    /\ Top.pc \in {"parse_number", "parse_object", "parse_array",
                   "parse_true", "parse_false", "parse_null"}
    /\ Return(ret)
    /\ Stay /\ Same

----------------------------------------------------------------------------
(* skip_whitespace *)

\* skip_whitespace with a peek where the source has a next
skip_whitespace_stuck ==
    /\ At("skip_whitespace", "start")
    /\ IF peek # EOF /\ is_whitespace(peek)
       THEN Stay /\ Step(Top)
       ELSE Stay /\ Return(Unit)
    /\ Same

skip_whitespace ==
    /\ At("skip_whitespace", "start")
    /\ IF peek # EOF /\ is_whitespace(peek)
       THEN Advance(1) /\ Step(Top)
       ELSE Stay /\ Return(Unit)
    /\ Same

----------------------------------------------------------------------------
(* parse_string *)

Unsupported == "unsupported"

\* the escapes with the form feed of JSON for \f
Escape_formfeed(c) ==
    CASE c = "\"" -> "\""
      [] c = "\\" -> "\\"
      [] c = "/" -> "/"
      [] c = "b" -> "U+0008"
      [] c = "f" -> "U+000C"
      [] c = "n" -> "\n"
      [] c = "r" -> "\r"
      [] c = "t" -> "\t"
      [] OTHER -> Unsupported

\* the character an escape stands for
Escape(c) ==
    CASE c = "\"" -> "\""
      [] c = "\\" -> "\\"
      [] c = "/" -> "/"
      [] c = "b" -> "U+0008"
      [] c = "f" -> "U+0012"
      [] c = "n" -> "\n"
      [] c = "r" -> "\r"
      [] c = "t" -> "\t"
      [] OTHER -> Unsupported

\* if iter.next()? != '"' { return None; }
parse_string_open ==
    /\ At("parse_string", "start")
    /\ IF peek = EOF THEN Stay /\ Return(None)
       ELSE /\ Advance(1)
            /\ IF peek # "\"" THEN Return(None)
               ELSE Step([fn |-> "parse_string", pc |-> "loop", str |-> <<>>])
    /\ Same

\* one iteration of while let Some(c) = iter.next()
parse_string_loop ==
    /\ At("parse_string", "loop")
    /\ CASE peek = EOF -> Stay /\ Return(None)
         [] peek = "\"" -> Advance(1) /\ Return(SomeString(Top.str))
         [] peek = "\\" ->
              IF peek2 = EOF THEN Advance(1) /\ Return(None)
              ELSE /\ Advance(2)
                   /\ IF Escape(peek2) = Unsupported THEN Return(None)
                      ELSE Step([Top EXCEPT !.str = Append(@, Escape(peek2))])
         [] OTHER -> Advance(1) /\ Step([Top EXCEPT !.str = Append(@, peek)])
    /\ Same

----------------------------------------------------------------------------
(* parse_number and its parts *)

parse_number_integer ==
    /\ At("parse_number", "start")
    /\ Call([Top EXCEPT !.pc = "int"], "parse_integer")
    /\ Stay /\ Same

\* let int = parse_integer(iter)?;
parse_number_fraction ==
    /\ At("parse_number", "int")
    /\ IF ret = None THEN Return(None)
       ELSE Call([fn |-> "parse_number", pc |-> "fraction", int |-> ret.i32],
                 "parse_fraction")
    /\ Stay /\ Same

\* let fraction = parse_fraction(iter)?;
parse_number_exponent ==
    /\ At("parse_number", "fraction")
    /\ IF ret = None THEN Return(None)
       ELSE Call([fn |-> "parse_number", pc |-> "exponent", int |-> Top.int,
                  fraction |-> ret.f64], "parse_exponent")
    /\ Stay /\ Same

\* let exponent = parse_exponent(iter)?; the value is computed
parse_number_value ==
    /\ At("parse_number", "exponent")
    /\ IF ret = None THEN Return(None)
       ELSE Return(Some(NumberValue(Top.int, Top.fraction, ret.i32)))
    /\ Stay /\ Same

\* let c = iter.peek()?; the sign is taken; parse_digits is called
parse_integer_sign ==
    /\ At("parse_integer", "start")
    /\ IF peek = EOF THEN Stay /\ Return(None)
       ELSE /\ IF peek = "-" THEN Advance(1) ELSE Stay
            /\ Call([fn |-> "parse_integer", pc |-> "digits",
                     sign |-> IF peek = "-" THEN -1 ELSE 1], "parse_digits")
    /\ Same

\* Some(sign * (num as i32)), num = parse_digits(iter)?
SignedReturn ==
    /\ ret # None
    /\ Stay
    /\ \/ Return(SomeI32(SignMul(Top.sign, ret.u32))) /\ Same
       \/ SignMulOverflows(Top.sign, ret.u32) /\ Abort

parse_integer_ret ==
    /\ At("parse_integer", "digits")
    /\ \/ ret = None /\ Stay /\ Return(None) /\ Same
       \/ SignedReturn

\* the peeked '.', then at least one numeric character
parse_fraction_dot ==
    /\ At("parse_fraction", "start")
    /\ IF peek = "."
       THEN /\ Advance(1)
            /\ IF peek2 # EOF /\ is_numeric(peek2)
               THEN Step([fn |-> "parse_fraction", pc |-> "loop", s |-> <<"0", ".">>])
               ELSE Return(None)
       ELSE Stay /\ Return(SomeF64(FracZero))
    /\ Same

\* one iteration of the digit loop of parse_fraction
parse_fraction_loop ==
    /\ At("parse_fraction", "loop")
    /\ peek # EOF /\ is_numeric(peek)
    /\ Advance(1)
    /\ Step([Top EXCEPT !.s = Append(@, peek)])
    /\ Same

\* the loop is left: let val: f64 = s.parse().unwrap();
parse_fraction_ret ==
    /\ At("parse_fraction", "loop")
    /\ ~(peek # EOF /\ is_numeric(peek))
    /\ Stay
    /\ IF parse_f64(Top.s) = None THEN Abort
       ELSE Return(parse_f64(Top.s)) /\ Same

\* the first character must be numeric
parse_digits_first ==
    /\ At("parse_digits", "start")
    /\ IF peek # EOF /\ is_numeric(peek)
       THEN Step([fn |-> "parse_digits", pc |-> "loop", num |-> U32Zero])
       ELSE Return(None)
    /\ Stay /\ Same

\* num = 10 * num + c.to_digit(10).unwrap();
Accumulate(d) ==
    \/ /\ Step([Top EXCEPT !.num = MulAddWrapped(@, d)])
       /\ Advance(1) /\ Same
    \/ /\ MulAddOverflows(Top.num, d)
       /\ Advance(1) /\ Abort

\* one iteration of the digit loop of parse_digits
parse_digits_loop ==
    /\ At("parse_digits", "loop")
    /\ peek # EOF /\ is_numeric(peek)
    /\ \/ to_digit(peek) = None /\ Advance(1) /\ Abort
       \/ to_digit(peek) # None /\ Accumulate(to_digit(peek).digit)

parse_digits_ret ==
    /\ At("parse_digits", "loop")
    /\ ~(peek # EOF /\ is_numeric(peek))
    /\ Return(SomeU32(Top.num))
    /\ Stay /\ Same

\* Some('e') | Some('E') => { iter.next(); let sign = parse_sign(iter)?;
parse_exponent_e ==
    /\ At("parse_exponent", "start")
    /\ IF peek \in {"e", "E"}
       THEN Advance(1) /\ Call([Top EXCEPT !.pc = "sign"], "parse_sign")
       ELSE Stay /\ Return(SomeI32(0))
    /\ Same

\* let num = parse_digits(iter)?;
parse_exponent_digits ==
    /\ At("parse_exponent", "sign")
    /\ IF ret = None THEN Return(None)
       ELSE Call([fn |-> "parse_exponent", pc |-> "digits", sign |-> ret.i32],
                 "parse_digits")
    /\ Stay /\ Same

parse_exponent_ret ==
    /\ At("parse_exponent", "digits")
    /\ \/ ret = None /\ Stay /\ Return(None) /\ Same
       \/ SignedReturn

\* the sign is peeked, never taken
parse_sign ==
    /\ At("parse_sign", "start")
    /\ Return(SomeI32(IF peek = "-" THEN -1 ELSE 1))
    /\ Stay /\ Same

----------------------------------------------------------------------------
(* parse_object, parse_member, parse_array                                 *)
(* The frame of a loop over members or elements keeps, beside the locals   *)
(* of the source, `mark`: the cursor at the last test of the loop (0 before*)
(* the first).  It is a history of the run; no step reads it.              *)

\* assert!(iter.next()? == '{'); skip_whitespace(iter); the map is empty
parse_object_open ==
    /\ At("parse_object", "start")
    /\ IF peek = EOF THEN Stay /\ Return(None) /\ Same
       ELSE /\ Advance(1)
            /\ IF peek # "{" THEN Abort
               ELSE /\ Call([fn |-> "parse_object", pc |-> "loop", map |-> EmptyMap,
                             mark |-> 0], "skip_whitespace")
                    /\ Same

\* one test of while let Some(c) = iter.peek().cloned(): the closing brace
\* ends the object, a comma is taken when there is one, a member is parsed
parse_object_loop ==
    /\ At("parse_object", "loop")
    /\ CASE peek = EOF -> Stay /\ Return(None)
         [] peek = "}" -> Advance(1) /\ Return(Some(Object(Top.map)))
         [] OTHER ->
              /\ IF peek = "," THEN Advance(1) ELSE Stay
              /\ Call([Top EXCEPT !.pc = "member", !.mark = pos], "parse_member")
    /\ Same

\* let (str, val) = parse_member(iter)?; map.insert(str, val); skip_whitespace
parse_object_insert ==
    /\ At("parse_object", "member")
    /\ IF ret = None THEN Return(None)
       ELSE Call([fn |-> "parse_object", pc |-> "loop",
                  map |-> insert(Top.map, ret.member.key, ret.member.value),
                  mark |-> Top.mark], "skip_whitespace")
    /\ Stay /\ Same

parse_member_skip1 ==
    /\ At("parse_member", "start")
    /\ Call([Top EXCEPT !.pc = "key"], "skip_whitespace")
    /\ Stay /\ Same

parse_member_key ==
    /\ At("parse_member", "key")
    /\ Call([Top EXCEPT !.pc = "skip2"], "parse_string")
    /\ Stay /\ Same

\* let s = parse_string(iter)?; skip_whitespace(iter);
parse_member_skip2 ==
    /\ At("parse_member", "skip2")
    /\ IF ret = None THEN Return(None)
       ELSE Call([fn |-> "parse_member", pc |-> "colon", s |-> ret.string],
                 "skip_whitespace")
    /\ Stay /\ Same

\* if iter.next()? != ':' { return None; } skip_whitespace(iter);
parse_member_colon ==
    /\ At("parse_member", "colon")
    /\ IF peek = EOF THEN Stay /\ Return(None)
       ELSE /\ Advance(1)
            /\ IF peek # ":" THEN Return(None)
               ELSE Call([Top EXCEPT !.pc = "value"], "skip_whitespace")
    /\ Same

parse_member_value ==
    /\ At("parse_member", "value")
    /\ Call([Top EXCEPT !.pc = "ret"], "parse_element")
    /\ Stay /\ Same

\* let v = parse_element(iter)?; Some((s, v))
parse_member_ret ==
    /\ At("parse_member", "ret")
    /\ IF ret = None THEN Return(None)
       ELSE Return(SomeMember(Top.s, ret.val))
    /\ Stay /\ Same

\* if iter.next()? != '[' { return None; } skip_whitespace(iter); vec is empty
parse_array_open ==
    /\ At("parse_array", "start")
    /\ IF peek = EOF THEN Stay /\ Return(None)
       ELSE /\ Advance(1)
            /\ IF peek # "[" THEN Return(None)
               ELSE Call([fn |-> "parse_array", pc |-> "loop", vec |-> <<>>,
                          mark |-> 0], "skip_whitespace")
    /\ Same

\* the loop of parse_array with a comma taken between elements only
parse_array_loop_strict ==
    /\ At("parse_array", "loop")
    /\ CASE peek = EOF -> Stay /\ Return(None)
         [] peek = "]" -> Advance(1) /\ Return(Some(Array(Top.vec)))
         [] OTHER ->
              /\ IF peek = "," /\ Top.vec # <<>> THEN Advance(1) ELSE Stay
              /\ Call([Top EXCEPT !.pc = "element", !.mark = pos], "parse_element")
    /\ Same

\* one test of while let Some(c) = iter.peek().cloned(): the closing bracket
\* ends the array, a comma is taken when there is one, an element is parsed
parse_array_loop ==
    /\ At("parse_array", "loop")
    /\ CASE peek = EOF -> Stay /\ Return(None)
         [] peek = "]" -> Advance(1) /\ Return(Some(Array(Top.vec)))
         [] OTHER ->
              /\ IF peek = "," THEN Advance(1) ELSE Stay
              /\ Call([Top EXCEPT !.pc = "element", !.mark = pos], "parse_element")
    /\ Same

\* parse_array with an element that failed left out instead of returned
parse_array_push_skips ==
    /\ At("parse_array", "element")
    /\ Call([fn |-> "parse_array", pc |-> "loop",
             vec |-> IF ret = None THEN Top.vec ELSE Append(Top.vec, ret.val),
             mark |-> Top.mark], "skip_whitespace")
    /\ Stay /\ Same

\* vec.push(Box::new(parse_element(iter)?)); skip_whitespace(iter);
parse_array_push ==
    /\ At("parse_array", "element")
    /\ IF ret = None THEN Return(None)
       ELSE Call([fn |-> "parse_array", pc |-> "loop", vec |-> Append(Top.vec, ret.val),
                  mark |-> Top.mark], "skip_whitespace")
    /\ Stay /\ Same

----------------------------------------------------------------------------
(* parse_true, parse_false, parse_null *)

\* how many characters of `word` the input has at the cursor, one after another
RECURSIVE Matched(_, _)
Matched(word, n) ==
    IF n < Len(word) /\ pos + n <= Len(input) /\ input[pos + n] = word[n + 1]
    THEN Matched(word, n + 1)
    ELSE n

\* iter.next()? == w1 && iter.next()? == w2 && ...: the characters are taken
\* one by one up to the first that differs, which is taken too
Literal(word, value) ==
    LET n == Matched(word, 0)
    IN  IF n = Len(word) THEN Advance(n) /\ Return(Some(value))
        ELSE IF pos + n > Len(input) THEN Advance(n) /\ Return(None)
        ELSE Advance(n + 1) /\ Return(None)

parse_true ==
    /\ At("parse_true", "start")
    /\ Literal(<<"t", "r", "u", "e">>, True)
    /\ Same

parse_false ==
    /\ At("parse_false", "start")
    /\ Literal(<<"f", "a", "l", "s", "e">>, False)
    /\ Same

parse_null ==
    /\ At("parse_null", "start")
    /\ Literal(<<"n", "u", "l", "l">>, Null)
    /\ Same

----------------------------------------------------------------------------
(* The specification *)

Init ==
    /\ status = "idle"
    /\ input = <<>>
    /\ pos = 1
    /\ stack = <<>>
    /\ ret = NoRet
    /\ result = NoRet

Next ==
    \/ parse \/ parse_return
    \/ parse_element_skip1 \/ parse_element_value
    \/ parse_element_skip2 \/ parse_element_ret
    \/ parse_value_dispatch \/ parse_value_string \/ parse_value_ret
    \/ skip_whitespace
    \/ parse_string_open \/ parse_string_loop
    \/ parse_number_integer \/ parse_number_fraction
    \/ parse_number_exponent \/ parse_number_value
    \/ parse_integer_sign \/ parse_integer_ret
    \/ parse_fraction_dot \/ parse_fraction_loop \/ parse_fraction_ret
    \/ parse_digits_first \/ parse_digits_loop \/ parse_digits_ret
    \/ parse_exponent_e \/ parse_exponent_digits \/ parse_exponent_ret
    \/ parse_sign
    \/ parse_object_open \/ parse_object_loop \/ parse_object_insert
    \/ parse_member_skip1 \/ parse_member_key \/ parse_member_skip2
    \/ parse_member_colon \/ parse_member_value \/ parse_member_ret
    \/ parse_array_open \/ parse_array_loop \/ parse_array_push
    \/ parse_true \/ parse_false \/ parse_null

Spec == Init /\ [][Next]_vars

\* the parse is one sequential call: it runs until it returns or panics
FairSpec == Spec /\ WF_vars(Next)

----------------------------------------------------------------------------
(* The claims *)

Finished == status \in {"done", "aborted"}

\* C1: every text -?[0-9]+(\.[0-9]+)?([eE][+-]?[0-9]+)? whose digit run fits
\* 32 bits parses to Some(Number(v)), v the standard reading of the text
NumbersReadAsWritten ==
    Finished =>
        \A c \in NumCases :
            input = c.text => status = "done" /\ result = Some(StdValue(c.parts))

\* C2: for a text of the form ws* E ws* R, E an element of value V and R
\* empty or starting with a character that is no whitespace and cannot go on
\* with E, parse returns Some(V) and leaves R where it is
TrailingIgnored ==
    Finished =>
        \A c \in TrailCases :
            input = c.text =>
                /\ status = "done"
                /\ result = Some(c.val)
                /\ pos = c.consumed + 1

TrailingIgnoredWitness ==
    /\ status = "done"
    /\ \E c \in TrailCases :
          /\ input = c.text /\ c.trailer # <<>>
          /\ result = Some(c.val) /\ pos <= Len(input)

\* C3: parse ends with Some(value) or None on every input; no assert! and
\* no unwrap panics
NeverAborts == status # "aborted"

\* C4: parse returns None whenever the input ends before the production in
\* progress is complete (empty or blank input, a cut literal, string, array,
\* object or number, a member with no value)
CutTextsFail ==
    Finished => (input \in CutTexts => status = "done" /\ result = None)

\* C5: an object text that parses gives the mapping with exactly the keys
\* of its members, each with the value of its last member; {} gives the
\* empty mapping
LastMemberWins ==
    status = "done" =>
        \A c \in ObjCases :
            input = c.text =>
                /\ c.commas = "plain" => result # None
                /\ result # None => result = Some(ObjValue(c.members))

LastMemberWinsWitness ==
    /\ status = "done"
    /\ \E c \in ObjCases :
          /\ input = c.text /\ Len(c.members) = 3
          /\ c.members[1].key = c.members[3].key
          /\ c.members[1].elem # c.members[3].elem
          /\ c.members[2].key # c.members[1].key
          /\ result = Some(ObjValue(c.members))

ControlChars == {"U+0008", "\t", "\n", "U+000C", "\r", "U+0012"}

\* the character the parser may give for an item
Decodes(item, c) ==
    IF item = FormFeedEscape THEN c \in ControlChars /\ c # "U+000C"
    ELSE c = item.out

\* C6: parse_string returns the characters between the quotes, every escape
\* replaced by one character (\f by a control character that is not U+000C),
\* every other character as it is; \u and any escape outside the table make
\* the parse return None
StringsDecoded ==
    Finished =>
        \A c \in StrCases :
            input = c.text =>
                /\ status = "done"
                /\ IF \E i \in DOMAIN c.items : c.items[i].out = BadOut
                   THEN result = None
                   ELSE /\ result # None
                        /\ result.val.t = "String"
                        /\ Len(result.val.str) = Len(c.items)
                        /\ \A i \in DOMAIN c.items :
                              Decodes(c.items[i], result.val.str[i])

StringsDecodedWitness ==
    /\ status = "done"
    /\ \E c \in StrCases :
          /\ input = c.text
          /\ c.items = <<FormFeedEscape, [src |-> <<"\\", "n">>, out |-> "\n"]>>
          /\ result = Some(String(<<"U+0012", "\n">>))

\* a sub-parser has returned None and the failure is on its way up
Failed ==
    /\ status = "running"
    /\ \/ ret = None
       \/ \E i \in DOMAIN stack :
             /\ stack[i].fn = "parse_element" /\ stack[i].pc = "ret"
             /\ stack[i].r = None

\* C7: once a sub-parser has failed, every enclosing parser and parse return
\* None: nothing built so far is returned, and no other production is tried
\* (the only call still made is parse_element's skip_whitespace)
FailurePropagates ==
    [][Failed =>
          /\ Failed' \/ (status' = "done" /\ result' = None)
          /\ Len(stack') > Len(stack) => stack'[Len(stack')].fn = "skip_whitespace"
      ]_vars

FailurePropagatesWitness ==
    /\ ret = None
    /\ Len(stack) >= 4
    /\ \E i \in DOMAIN stack :
          /\ stack[i].fn = "parse_array" /\ stack[i].pc = "element"
          /\ stack[i].vec # <<>>
    /\ \E i \in DOMAIN stack : stack[i].fn = "parse_member"

\* the top frame is inside one of the character loops
InCharLoop ==
    /\ status = "running" /\ stack # <<>>
    /\ \/ Top.fn = "skip_whitespace"
       \/ Top.fn \in {"parse_string", "parse_digits", "parse_fraction"} /\ Top.pc = "loop"

\* the step is an iteration of a character loop that stays in the loop
CharLoopGoesOn ==
    /\ InCharLoop /\ InCharLoop'
    /\ Len(stack') = Len(stack)
    /\ stack'[Len(stack')].fn = Top.fn

\* the member or element loop is about to be tested
AtLoopTest ==
    /\ status = "running" /\ stack # <<>>
    /\ Top.fn \in {"parse_object", "parse_array"} /\ Top.pc = "loop"

\* C8: parse terminates: the cursor never goes back and never passes the
\* end, every iteration of a loop that goes on has moved the cursor on, and
\* the parse ends
ParseTerminates ==
    /\ [](pos <= Len(input) + 1)
    /\ [](AtLoopTest => pos > Top.mark)
    /\ [][pos' >= pos /\ (CharLoopGoesOn => pos' > pos)]_vars
    /\ <>Finished

ParseTerminatesWitness ==
    /\ AtLoopTest
    /\ Top.fn = "parse_array" /\ Len(Top.vec) = 3
    /\ Top.mark > 1 /\ pos > Top.mark /\ pos <= Len(input)

\* the value the items of a case denote
CaseValue(c) ==
    IF "members" \in DOMAIN c THEN ObjValue(c.members) ELSE ArrValue(c.elems)

StrayCases == {c \in ObjCases \cup ArrCases : c.commas # "plain"}

\* C9 as stated: a leading, a trailing and a doubled comma are all accepted,
\* and the parse gives the members or elements of the text without them
StrayCommasAccepted ==
    Finished =>
        \A c \in StrayCases :
            input = c.text => status = "done" /\ result = Some(CaseValue(c))

\* C9 as amended: a leading comma before the first member or element is
\* accepted and changes nothing; a trailing comma before the closing bracket
\* and a doubled comma make the parse return None
LeadingCommaOnly ==
    Finished =>
        \A c \in StrayCases :
            input = c.text =>
                /\ status = "done"
                /\ result = IF c.commas = "leading" THEN Some(CaseValue(c)) ELSE None

LeadingCommaOnlyWitness ==
    /\ status = "done"
    /\ \E c \in StrayCases :
          /\ input = c.text /\ c.commas = "leading"
          /\ "members" \in DOMAIN c /\ Len(c.members) = 2
          /\ result = Some(CaseValue(c))

\* C10: parse_exponent takes 'e' or 'E', an optional sign and the digits,
\* yields sign * digits and leaves the cursor past the last digit; with no
\* 'e' or 'E' it yields 0 and takes nothing
ExponentRead ==
    At("parse_number", "exponent") =>
        \A c \in NumCases :
            input = c.text =>
                /\ ret = SomeI32(StdExponent(c.parts))
                /\ pos = Len(c.text) + 1

====
